---- MODULE Spec2Model ----
(***************************************************************************)
(* Model of backend/server.js: an Express server that keeps one counter    *)
(* row in a SQLite file (counter.db), initialises it at startup and        *)
(* serves GET /api/counter, POST /api/counter/increment, the page GET /    *)
(* and a catch-all 404 handler.                                            *)
(*                                                                         *)
(* Every SQLite statement is one atomic step (SQLite executes a single     *)
(* statement atomically); the callbacks of different requests interleave   *)
(* freely between statements, as they do on the node event loop.           *)
(***************************************************************************)
EXTENDS Integers, FiniteSets, Sequences, TLC

\* ------------------------------------------------------------------ bounds
MaxConns == 2         \* connections (requests) that can be in flight at once
MaxIssued == 3        \* requests that concurrent clients send in all
MaxSeqIssued == 5     \* requests that a sequential client sends in all
MaxRouted == 2        \* requests of any kind that a client sends in all
MaxRestarts == 1      \* restarts of the process
MaxInitValue == 1     \* largest counter value found in a pre-existing store
MaxClicks == 2        \* clicks on the page's increment button
MaxCalls == 2         \* calls of the page's async functions in progress at once

\* ------------------------------------------------------- program constants
CounterId == 1        \* WHERE id = 1
InitialValue == 0     \* INSERT INTO counter (value) VALUES (?), [0]

NoValue == 0 - 1      \* "no row" / "no value" marker of the history variables

Conns == 1..MaxConns
OtherId == CounterId + 1
StoreIds == {CounterId, OtherId}

Methods == {"GET", "HEAD", "POST", "DELETE"}
Paths == {"/", "/api/counter", "/api/counter/increment", "/other"}
Bodies == {"absent", "emptyJSON", "JSON", "malformedJSON"}
Requests == [method : Methods, path : Paths, body : Bodies]
NoRequest == [method |-> "", path |-> "", body |-> ""]

Calls == 1..MaxCalls
PageKinds == {"standalone", "inline"}

VARIABLES
    tableExists,  \* counter.db: the counter table exists
    rows,         \* counter.db: the rows of the table, id -> value
    seq,          \* counter.db: sqlite_sequence of the AUTOINCREMENT key
    phase,        \* where the process is: open, create, count, insert,
                  \* resolved, listening, exited
    dbAssigned,   \* the global `db` holds the opened database
    pc,           \* per connection: idle, get, update, select, done
    route,        \* per connection: the handler the request was routed to
    resp,         \* per connection: the response sent
    pre,          \* history: the stored value just before the request's UPDATE
    stmtFailed,   \* history: the statement of the request that failed
    lastReq,      \* history: the request received last
    store0,       \* history: the content of the store when the model starts
    vStart,       \* history: the stored value when this run began to listen
    valueAtStop,  \* history: the stored value when the process last stopped
    nIssued,      \* history: requests received so far
    nIncDone,     \* history: increment requests answered in this run
    failed,       \* history: a storage statement failed in this run
    initFailed,   \* history: a step of this run's startup failed
    runs,         \* history: restarts so far
    pageKind,     \* the page open in the browser: none, the standalone
                  \* page, or the page that GET / serves inline
    loaded,       \* page: DOMContentLoaded has been dispatched
    disabled,     \* page: incrementButton.disabled
    call,         \* page: the calls of fetchCounter and incrementCounter in
                  \* progress, each at one of its awaits
    nClicks       \* history: clicks dispatched to the button so far

serverVars == <<tableExists, rows, seq, phase, dbAssigned, pc, route, resp,
                pre, lastReq, store0, vStart, valueAtStop, nIssued, nIncDone,
                failed, initFailed, stmtFailed, runs>>

pageVars == <<pageKind, loaded, disabled, call, nClicks>>

vars == <<serverVars, pageVars>>

storeVars == <<tableExists, rows, seq>>
connVars == <<pc, route, resp, pre, stmtFailed>>
runVars == <<vStart, nIncDone, failed>>

\* ---------------------------------------------------------------- helpers
Max(S) == CHOOSE x \in S : \A y \in S : y <= x

\* The value of the row the handlers address, NoValue when it is absent.
StoredValue == IF CounterId \in DOMAIN rows THEN rows[CounterId] ELSE NoValue

\* A response: its status, the "value" or "error" member of its JSON body,
\* or its text.
NoResponse == [status |-> 0, value |-> NoValue, error |-> "", text |-> ""]

\* The stores a starting process can find: no file or no table yet, an
\* empty table (whose AUTOINCREMENT sequence remembers the ids it has used),
\* or a table holding the counter row, another row, or both.  A row other
\* than the counter row holds 0: no statement of the program reads it.
EmptyStores ==
    {[tableExists |-> FALSE, rows |-> <<>>, seq |-> 0]} \cup
    {[tableExists |-> TRUE, rows |-> <<>>, seq |-> s] : s \in 0..OtherId}

FilledStores ==
    UNION { { [tableExists |-> TRUE,
               rows |-> [i \in D |-> IF i = CounterId THEN v ELSE 0],
               seq |-> Max(D)] :
              v \in IF CounterId \in D THEN 0..MaxInitValue ELSE {0} } :
            D \in (SUBSET StoreIds) \ {{}} }

Stores == EmptyStores \cup FilledStores

InitServer ==
    /\ \E s \in Stores :
         /\ tableExists = s.tableExists
         /\ rows = s.rows
         /\ seq = s.seq
         /\ store0 = s
    /\ phase = "open"
    /\ dbAssigned = FALSE
    /\ pc = [c \in Conns |-> "idle"]
    /\ route = [c \in Conns |-> "none"]
    /\ resp = [c \in Conns |-> NoResponse]
    /\ pre = [c \in Conns |-> NoValue]
    /\ stmtFailed = [c \in Conns |-> "none"]
    /\ initFailed = FALSE
    /\ lastReq = NoRequest
    /\ vStart = NoValue
    /\ valueAtStop = NoValue
    /\ nIssued = 0
    /\ nIncDone = 0
    /\ failed = FALSE
    /\ runs = 0

\* No call of the page's functions is in progress.
IdleCall == [fn |-> "none", pc |-> "idle", conn |-> 0, run |-> 0]

\* No page is open yet: the clients of the server are API clients.
InitPage ==
    /\ pageKind = "none"
    /\ loaded = FALSE
    /\ disabled = FALSE
    /\ call = [k \in Calls |-> IdleCall]
    /\ nClicks = 0

Init == InitServer /\ InitPage

\* ------------------------------------------------- initializeDatabase
\* Mutant: the .catch handler logs the error and starts the server anyway.
AfterFailureServe == "resolved"

\* What the .catch handler makes of a rejected startup: process.exit(1).
AfterFailure == "exited"

\* A step of the startup chain fails: the promise is rejected and the
\* .catch handler runs.
ExitProcess ==
    /\ phase' = AfterFailure
    /\ initFailed' = TRUE
    /\ UNCHANGED <<dbAssigned, connVars, lastReq, store0, pageVars, runVars,
                   nIssued, valueAtStop, runs>>

\* new sqlite3.Database(DB_FILE, cb): opens the file, creating it if absent.
OpenDatabase(ok) ==
    /\ phase = "open"
    /\ UNCHANGED storeVars
    /\ IF ok
       THEN /\ phase' = "create"
            /\ UNCHANGED <<initFailed, dbAssigned, connVars, lastReq,
                           store0, pageVars,
                           runVars, nIssued, valueAtStop, runs>>
       ELSE ExitProcess

\* CREATE TABLE IF NOT EXISTS counter (...)
CreateTable(ok) ==
    /\ phase = "create"
    /\ IF ok
       THEN /\ tableExists' = TRUE
            /\ UNCHANGED <<rows, seq>>
            /\ phase' = "count"
            /\ UNCHANGED <<initFailed, dbAssigned, connVars, lastReq,
                           store0, pageVars,
                           runVars, nIssued, valueAtStop, runs>>
       ELSE /\ UNCHANGED storeVars
            /\ ExitProcess

\* Mutant: the row count is not looked at, every startup inserts a row.
TableIsEmptyAlways == TRUE

\* row.count === 0 after SELECT COUNT(*) as count FROM counter
TableIsEmpty == Cardinality(DOMAIN rows) = 0

CountRows(ok) ==
    /\ phase = "count"
    /\ UNCHANGED storeVars
    /\ IF ok
       THEN /\ phase' = IF TableIsEmpty THEN "insert" ELSE "resolved"
            /\ UNCHANGED <<initFailed, dbAssigned, connVars, lastReq,
                           store0, pageVars,
                           runVars, nIssued, valueAtStop, runs>>
       ELSE ExitProcess

\* The id an AUTOINCREMENT key gives the next row: one past the largest id
\* the table has ever held.
NextRowId == Max(DOMAIN rows \cup {seq}) + 1

\* Mutant: the first row is inserted with value 1.
InsertedRowsOne ==
    [i \in DOMAIN rows \cup {NextRowId} |->
        IF i = NextRowId THEN InitialValue + 1 ELSE rows[i]]

\* INSERT INTO counter (value) VALUES (?), [0]
InsertedRows ==
    [i \in DOMAIN rows \cup {NextRowId} |->
        IF i = NextRowId THEN InitialValue ELSE rows[i]]

InsertInitial(ok) ==
    /\ phase = "insert"
    /\ IF ok
       THEN /\ rows' = InsertedRows
            /\ seq' = NextRowId
            /\ UNCHANGED tableExists
            /\ phase' = "resolved"
            /\ UNCHANGED <<initFailed, dbAssigned, connVars, lastReq,
                           store0, pageVars,
                           runVars, nIssued, valueAtStop, runs>>
       ELSE /\ UNCHANGED storeVars
            /\ ExitProcess

\* What the .then handler does once the promise resolved: it assigns db and
\* calls app.listen.  A failed listen (the port is taken) is an unhandled
\* 'error' event, which ends the process.
Listen(ok) ==
    /\ phase = "resolved"
    /\ dbAssigned' = TRUE
    /\ phase' = IF ok THEN "listening" ELSE "exited"
    /\ vStart' = IF ok THEN StoredValue ELSE vStart
    /\ UNCHANGED <<storeVars, connVars, lastReq,
                   store0, pageVars, valueAtStop, runs,
                   nIssued, nIncDone, failed, initFailed>>

\* The process is stopped (or has exited) and is started again on the same
\* file: every connection is gone, the module is evaluated afresh.
Restart ==
    /\ runs < MaxRestarts
    /\ runs' = runs + 1
    /\ valueAtStop' = StoredValue
    /\ phase' = "open"
    /\ dbAssigned' = FALSE
    /\ pc' = [c \in Conns |-> "idle"]
    /\ route' = [c \in Conns |-> "none"]
    /\ resp' = [c \in Conns |-> NoResponse]
    /\ pre' = [c \in Conns |-> NoValue]
    /\ lastReq' = NoRequest
    /\ vStart' = NoValue
    /\ nIncDone' = 0
    /\ failed' = FALSE
    /\ initFailed' = FALSE
    /\ stmtFailed' = [c \in Conns |-> "none"]
    /\ UNCHANGED <<storeVars, store0, pageVars, nIssued>>

\* --------------------------------------------------------- the middleware
\* app.use(express.json()) runs before every route: a body declared as JSON
\* that does not parse ends the request with 400, whatever its route.
BodyParses(q) == q.body # "malformedJSON"

\* Mutant: the routes are registered for every method (app.all).
DispatchAnyMethod(q) ==
    IF ~BodyParses(q) THEN "badjson"
    ELSE IF q.path = "/api/counter" /\ q.method = "HEAD" THEN "head"
    ELSE IF q.path = "/api/counter" THEN "get"
    ELSE IF q.path = "/api/counter/increment" THEN "inc"
    ELSE IF q.path = "/" THEN "page"
    ELSE "notfound"

\* Mutant: a request without a body is rejected like a malformed one.
DispatchBodyRequired(q) ==
    IF ~BodyParses(q) \/ q.body = "absent" THEN "badjson"
    ELSE IF q.path = "/api/counter" /\ q.method = "GET" THEN "get"
    ELSE IF q.path = "/api/counter" /\ q.method = "HEAD" THEN "head"
    ELSE IF q.path = "/api/counter/increment" /\ q.method = "POST" THEN "inc"
    ELSE IF q.path = "/" /\ q.method \in {"GET", "HEAD"} THEN "page"
    ELSE "notfound"

\* The routes in the order they are registered.  A route registered with
\* app.get also answers HEAD.
Dispatch(q) ==
    IF ~BodyParses(q) THEN "badjson"
    ELSE IF q.path = "/api/counter" /\ q.method = "GET" THEN "get"
    ELSE IF q.path = "/api/counter" /\ q.method = "HEAD" THEN "head"
    ELSE IF q.path = "/api/counter/increment" /\ q.method = "POST" THEN "inc"
    ELSE IF q.path = "/" /\ q.method \in {"GET", "HEAD"} THEN "page"
    ELSE "notfound"

\* res.json({ value: v })
ValueResponse(v) ==
    [status |-> 200, value |-> v, error |-> "", text |-> ""]
\* res.status(500).json({ error: msg })
ErrorResponse(msg) ==
    [status |-> 500, value |-> NoValue, error |-> msg, text |-> ""]
\* the answer to HEAD /api/counter: the GET answer without its body
HeadResponse(r) == [r EXCEPT !.value = NoValue, !.error = ""]
\* res.status(404).send('404: Not Found')
NotFoundResponse ==
    [status |-> 404, value |-> NoValue, error |-> "",
     text |-> "404: Not Found"]
\* res.type('text/html'); res.send(...)
PageResponse ==
    [status |-> 200, value |-> NoValue, error |-> "", text |-> "html"]
\* the answer of the JSON middleware to a body that does not parse
BadRequestResponse ==
    [status |-> 400, value |-> NoValue, error |-> "", text |-> "Bad Request"]

\* The connection a new request arrives on: the first one that carries no
\* request in flight.
FreeConns == {c \in Conns : pc[c] \in {"idle", "done"}}
FreeConn == CHOOSE c \in FreeConns : \A d \in FreeConns : c <= d

\* A request arrives and runs through the middleware and the routes until
\* a handler has answered it or has queued its first statement.
Receive(q) ==
    /\ phase = "listening"
    /\ FreeConns # {}
    /\ LET c == FreeConn
           h == Dispatch(q)
       IN /\ route' = [route EXCEPT ![c] = h]
          /\ pc' = [pc EXCEPT ![c] =
                      CASE h \in {"get", "head"} -> "get"
                        [] h = "inc" -> "update"
                        [] OTHER -> "done"]
          /\ resp' = [resp EXCEPT ![c] =
                      CASE h = "badjson" -> BadRequestResponse
                        [] h = "notfound" -> NotFoundResponse
                        [] h = "page" -> PageResponse
                        [] OTHER -> NoResponse]
          /\ pre' = [pre EXCEPT ![c] = NoValue]
          /\ stmtFailed' = [stmtFailed EXCEPT ![c] = "none"]
    /\ lastReq' = q
    /\ nIssued' = nIssued + 1
    /\ UNCHANGED <<storeVars, phase, dbAssigned, store0, vStart, valueAtStop,
                   nIncDone, failed, initFailed, runs>>

\* ------------------------------------------------------- GET /api/counter
\* Mutant: the handler answers from the value read when the server started
\* instead of reading the row again.
GetAnswerCached(ok) ==
    IF ~ok THEN ErrorResponse("Failed to retrieve counter value.")
    ELSE IF CounterId \notin DOMAIN rows THEN ValueResponse(0)
    ELSE ValueResponse(vStart)

\* The callback of SELECT value FROM counter WHERE id = 1.
GetAnswer(ok) ==
    IF ~ok THEN ErrorResponse("Failed to retrieve counter value.")
    ELSE IF CounterId \notin DOMAIN rows THEN ValueResponse(0)
    ELSE ValueResponse(rows[CounterId])

GetSelect(c, ok) ==
    /\ pc[c] = "get"
    /\ pc' = [pc EXCEPT ![c] = "done"]
    /\ resp' = [resp EXCEPT ![c] =
                  IF route[c] = "head" THEN HeadResponse(GetAnswer(ok))
                  ELSE GetAnswer(ok)]
    /\ stmtFailed' = [stmtFailed EXCEPT ![c] = IF ok THEN "none" ELSE "SELECT"]
    /\ failed' = (failed \/ ~ok)
    /\ UNCHANGED <<storeVars, phase, dbAssigned, route, pre, lastReq,
                   store0, pageVars,
                   vStart, valueAtStop, nIssued, nIncDone, initFailed, runs>>

\* --------------------------------------------- POST /api/counter/increment
\* Mutant: the UPDATE addresses another row than the one the SELECT reads.
UpdatedRowsWrongId ==
    [i \in DOMAIN rows |-> IF i = OtherId THEN rows[i] + 1 ELSE rows[i]]

\* Mutant: the UPDATE subtracts instead of adding.
UpdatedRowsDecrement ==
    [i \in DOMAIN rows |-> IF i = CounterId THEN rows[i] - 1 ELSE rows[i]]

\* UPDATE counter SET value = value + 1 WHERE id = 1
UpdatedRows ==
    [i \in DOMAIN rows |-> IF i = CounterId THEN rows[i] + 1 ELSE rows[i]]

\* The callback of the UPDATE, when it failed.
UpdateFailedAnswer == ErrorResponse("Failed to increment counter value.")

\* db.serialize runs the UPDATE once no earlier statement of the connection
\* is pending; the SELECT is queued by the UPDATE's callback.
IncUpdate(c, ok) ==
    /\ pc[c] = "update"
    /\ IF ok
       THEN /\ rows' = UpdatedRows
            /\ pre' = [pre EXCEPT ![c] = StoredValue]
            /\ pc' = [pc EXCEPT ![c] = "select"]
            /\ UNCHANGED <<resp, stmtFailed, failed, nIncDone>>
       ELSE /\ pc' = [pc EXCEPT ![c] = "done"]
            /\ resp' = [resp EXCEPT ![c] = UpdateFailedAnswer]
            /\ stmtFailed' = [stmtFailed EXCEPT ![c] = "UPDATE"]
            /\ failed' = TRUE
            /\ nIncDone' = nIncDone + 1
            /\ UNCHANGED <<rows, pre>>
    /\ UNCHANGED <<tableExists, seq, phase, dbAssigned, route, lastReq,

                   store0, pageVars, vStart, valueAtStop, nIssued,
                   initFailed, runs>>

\* Mutant: like the GET handler, the increment answers 0 when no row is found.
IncAnswerDefaulted(ok) ==
    IF ~ok THEN ErrorResponse("Failed to retrieve new counter value.")
    ELSE IF CounterId \notin DOMAIN rows THEN ValueResponse(0)
    ELSE ValueResponse(rows[CounterId])

\* The callback of the SELECT that follows the UPDATE.
IncAnswer(ok) ==
    IF ~ok THEN ErrorResponse("Failed to retrieve new counter value.")
    ELSE IF CounterId \notin DOMAIN rows
         THEN ErrorResponse("Counter row disappeared after increment.")
    ELSE ValueResponse(rows[CounterId])

IncSelect(c, ok) ==
    /\ pc[c] = "select"
    /\ pc' = [pc EXCEPT ![c] = "done"]
    /\ resp' = [resp EXCEPT ![c] = IncAnswer(ok)]
    /\ stmtFailed' = [stmtFailed EXCEPT ![c] = IF ok THEN "none" ELSE "SELECT"]
    /\ failed' = (failed \/ ~ok)
    /\ nIncDone' = nIncDone + 1
    /\ UNCHANGED <<storeVars, phase, dbAssigned, route, pre, lastReq,
                   store0, pageVars,
                   vStart, valueAtStop, nIssued, initFailed, runs>>

\* ----------------------------------------------------------------- the page
\* The page's script registers fetchCounter for DOMContentLoaded and
\* incrementCounter for a click on the button.  Each call runs to its next
\* await in one step.  The status text, the counter display and the timers
\* that clear the status text are left out: no statement reads them to
\* decide about the button or a request.

\* The request that a call's fetch sends.
PageRequest(fn) ==
    IF fn = "increment"
    THEN [method |-> "POST", path |-> "/api/counter/increment",
          body |-> "emptyJSON"]
    ELSE [method |-> "GET", path |-> "/api/counter", body |-> "absent"]

\* A browser opens one of the two pages and runs its script: both
\* listeners are registered, the button is enabled as the markup has it,
\* DOMContentLoaded is still to come.  The inline page is the answer of
\* this server to GET /; the standalone page is a file of its own.
OpenPage(kind) ==
    /\ pageKind = "none"
    /\ pageKind' = kind
    /\ IF kind = "inline"
       THEN Receive([method |-> "GET", path |-> "/", body |-> "absent"])
       ELSE UNCHANGED serverVars
    /\ UNCHANGED <<loaded, disabled, call, nClicks>>

FreeCalls == {k \in Calls : call[k].pc = "idle"}
FreeCall == CHOOSE k \in FreeCalls : \A j \in FreeCalls : k <= j

\* The call runs up to `await fetch(...)`: the request is on its way.
StartedCall(fn) ==
    [call EXCEPT ![FreeCall] =
        [fn |-> fn, pc |-> "sent", conn |-> 0, run |-> 0]]

\* fetchCounter of the inline page disables the button and re-enables it
\* in its finally block; fetchCounter of the standalone page leaves the
\* button alone.
FetchTouchesButton == pageKind = "inline"

\* DOMContentLoaded is dispatched, once: fetchCounter is called.
DomContentLoaded ==
    /\ pageKind # "none"
    /\ ~loaded
    /\ FreeCalls # {}
    /\ loaded' = TRUE
    /\ disabled' = IF FetchTouchesButton THEN TRUE ELSE disabled
    /\ call' = StartedCall("fetch")
    /\ UNCHANGED <<serverVars, pageKind, nClicks>>

\* A click is dispatched to the button, which a browser does only while
\* the button is not disabled: incrementCounter is called and disables the
\* button before it calls fetch.
Click ==
    /\ pageKind # "none"
    /\ ~disabled
    /\ nClicks < MaxClicks
    /\ FreeCalls # {}
    /\ nClicks' = nClicks + 1
    /\ disabled' = TRUE
    /\ call' = StartedCall("increment")
    /\ UNCHANGED <<serverVars, pageKind, loaded>>

\* The finally block of the call, reached on every path out of the try.
Settle(k) ==
    /\ disabled' = IF call[k].fn = "increment" \/ FetchTouchesButton
                   THEN FALSE ELSE disabled
    /\ call' = [call EXCEPT ![k] = IdleCall]
    /\ UNCHANGED <<serverVars, pageKind, loaded, nClicks>>

\* The request of the call reaches the server, which dispatches it.
Arrive(k) ==
    /\ call[k].pc = "sent"
    /\ FreeConns # {}
    /\ \A j \in Calls : call[j].pc = "wait" => call[j].conn # FreeConn
    /\ Receive(PageRequest(call[k].fn))
    /\ call' = [call EXCEPT ![k] =
                  [@ EXCEPT !.pc = "wait", !.conn = FreeConn, !.run = runs]]
    /\ UNCHANGED <<pageKind, loaded, disabled, nClicks>>

\* The request does not reach the server: fetch rejects, the catch block
\* and the finally block run.
ConnectFails(k) ==
    /\ call[k].pc = "sent"
    /\ Settle(k)

\* The server has answered: fetch resolves and the call goes on to
\* `await response.json()`, whatever the status.
ResponseArrives(k) ==
    /\ call[k].pc = "wait"
    /\ call[k].run = runs
    /\ pc[call[k].conn] = "done"
    /\ call' = [call EXCEPT ![k].pc = "json"]
    /\ UNCHANGED <<serverVars, pageKind, loaded, disabled, nClicks>>

\* The connection breaks before the response has arrived (the process was
\* restarted, the network failed): fetch rejects, the catch block and the
\* finally block run.
ConnectionLost(k) ==
    /\ call[k].pc = "wait"
    /\ Settle(k)

\* response.json() settles: the call either finishes its try block or
\* throws (an error status, a body that is no JSON); then the finally
\* block runs.
BodyRead(k) ==
    /\ call[k].pc = "json"
    /\ Settle(k)

Page ==
    \/ \E kind \in PageKinds : OpenPage(kind)
    \/ DomContentLoaded
    \/ Click
    \/ \E k \in Calls : Arrive(k)
    \/ \E k \in Calls : ConnectFails(k)
    \/ \E k \in Calls : ResponseArrives(k)
    \/ \E k \in Calls : ConnectionLost(k)
    \/ \E k \in Calls : BodyRead(k)

\* ------------------------------------------------------ the specifications
\* One request for each outcome of Dispatch: the handlers never read the
\* request, so requests that are dispatched alike behave alike.
ClientRequests ==
    {[method |-> "GET", path |-> "/api/counter", body |-> "absent"],
     [method |-> "HEAD", path |-> "/api/counter", body |-> "absent"],
     [method |-> "POST", path |-> "/api/counter/increment",
      body |-> "emptyJSON"],
     [method |-> "POST", path |-> "/api/counter/increment",
      body |-> "malformedJSON"],
     [method |-> "GET", path |-> "/", body |-> "absent"],
     [method |-> "DELETE", path |-> "/other", body |-> "absent"]}

\* No request is in flight.
AllFree == \A c \in Conns : pc[c] \in {"idle", "done"}

\* Clients that send their requests whenever a connection is free.
ClientRequest ==
    /\ nIssued < MaxIssued
    /\ \E q \in ClientRequests : Receive(q)
    /\ UNCHANGED pageVars

\* A client that waits for each answer before it sends the next request.
SeqRequest ==
    /\ nIssued < MaxSeqIssued
    /\ AllFree
    /\ \E q \in ClientRequests : Receive(q)
    /\ UNCHANGED pageVars

\* A client that sends, one after the other, requests of every method, path
\* and body.
AnyRequest ==
    /\ nIssued < MaxRouted
    /\ AllFree
    /\ \E q \in Requests : Receive(q)
    /\ UNCHANGED pageVars

Process ==
    \/ \E ok \in BOOLEAN : OpenDatabase(ok)
    \/ \E ok \in BOOLEAN : CreateTable(ok)
    \/ \E ok \in BOOLEAN : CountRows(ok)
    \/ \E ok \in BOOLEAN : InsertInitial(ok)
    \/ \E ok \in BOOLEAN : Listen(ok)
    \/ Restart
    \/ \E c \in Conns, ok \in BOOLEAN : GetSelect(c, ok)
    \/ \E c \in Conns, ok \in BOOLEAN : IncUpdate(c, ok)
    \/ \E c \in Conns, ok \in BOOLEAN : IncSelect(c, ok)

Next == Process \/ ClientRequest
NextSeq == Process \/ SeqRequest
NextRoute == Process \/ AnyRequest

\* The server under concurrent clients.
Spec == Init /\ [][Next]_vars
\* The server under one sequential client.
SpecSeq == Init /\ [][NextSeq]_vars
\* The server under one sequential client that sends any request.
SpecRoute == Init /\ [][NextRoute]_vars

\* The server with one page open as its only client.
NextPage == Process \/ Page
SpecPage == Init /\ [][NextPage]_vars

\* Every statement that a handler has queued completes, and every call of
\* the page gets on: its request arrives or fails, its response arrives or
\* the connection breaks, its body is read.
PageFairness ==
    /\ \A c \in Conns :
         /\ WF_vars(\E ok \in BOOLEAN : GetSelect(c, ok))
         /\ WF_vars(\E ok \in BOOLEAN : IncUpdate(c, ok))
         /\ WF_vars(\E ok \in BOOLEAN : IncSelect(c, ok))
    /\ \A k \in Calls :
         /\ WF_vars(Arrive(k) \/ ConnectFails(k))
         /\ WF_vars(ResponseArrives(k) \/ ConnectionLost(k))
         /\ WF_vars(BodyRead(k))

SpecPageFair == SpecPage /\ PageFairness

\* ----------------------------------------------------------------- claims
IncDone(c) == pc[c] = "done" /\ route[c] = "inc"
GetDone(c) == pc[c] = "done" /\ route[c] = "get"
IncInFlight == \E c \in Conns : pc[c] \in {"update", "select"}

\* C1: when K increment requests, sent concurrently while the stored value
\* was V, have all been answered and no storage statement failed, the
\* stored value is V + K.
C1_NoLostUpdate ==
    (phase = "listening" /\ vStart # NoValue /\ ~failed /\ ~IncInFlight)
        => StoredValue = vStart + nIncDone

\* C1 witness: two increments overlapped (each read the value after both
\* UPDATEs) and the stored value is V + 2.
C1_Witness ==
    /\ phase = "listening" /\ ~failed /\ ~IncInFlight
    /\ nIncDone = 2
    /\ \E c, d \in Conns :
         /\ c # d
         /\ IncDone(c) /\ resp[c] = ValueResponse(vStart + 2)
         /\ IncDone(d) /\ resp[d] = ValueResponse(vStart + 2)
    /\ vStart # NoValue
    /\ StoredValue = vStart + 2

\* C2 (as claimed): every successful increment response carries the value
\* stored just before the request's own UPDATE plus 1, and no two successful
\* increment responses carry the same value.
C2_ResponseIsOwnIncrement ==
    /\ \A c \in Conns :
         (IncDone(c) /\ resp[c].status = 200) => resp[c].value = pre[c] + 1
    /\ \A c, d \in Conns :
         (c # d /\ IncDone(c) /\ IncDone(d)
            /\ resp[c].status = 200 /\ resp[d].status = 200)
         => resp[c].value # resp[d].value

\* C3: a sequential client that has had N increments answered since the
\* server began to listen at value V, none of whose statements failed, gets
\* V + N from GET /api/counter, and got V + N from the N-th increment.
C3_SequentialValue ==
    \A c \in Conns :
        (phase = "listening" /\ vStart # NoValue /\ ~failed
           /\ (GetDone(c) \/ IncDone(c)))
        => resp[c] = ValueResponse(vStart + nIncDone)

\* C3 witness: from 0, increment, GET, two more increments, GET answers 3.
C3_Witness ==
    /\ vStart = 0 /\ ~failed /\ nIssued = 5 /\ nIncDone = 3
    /\ \E c \in Conns : GetDone(c) /\ resp[c] = ValueResponse(3)

\* A store that holds no row and has never held one.
FreshStore(s) == DOMAIN s.rows = {} /\ s.seq = 0

\* C4: the first run on an empty store listens only once the table exists
\* and holds the single row (1, 0); a GET answered while no increment has
\* been applied returns 0.
C4_EmptyStoreStartsAtZero ==
    (FreshStore(store0) /\ runs = 0 /\ phase = "listening")
        => /\ tableExists
           /\ vStart = 0
           /\ DOMAIN rows = {CounterId}
           /\ \A c \in Conns :
                (GetDone(c) /\ stmtFailed[c] = "none" /\ StoredValue = 0)
                    => resp[c] = ValueResponse(0)

\* C4 witness: no file at first, the server listens, a GET was answered 0.
C4_Witness ==
    /\ ~store0.tableExists /\ runs = 0 /\ phase = "listening"
    /\ StoredValue = 0
    /\ \E c \in Conns : GetDone(c) /\ resp[c] = ValueResponse(0)

\* A store as the program itself leaves it: never used, or holding exactly
\* the counter row.
OwnStore(s) == FreshStore(s) \/ DOMAIN s.rows = {CounterId}

\* A step taken while the server is listening: a request is received or a
\* statement of a handler completes.
HandlerStep == phase = "listening" /\ phase' = "listening"

\* C5 (as claimed): after a successful startup, whatever the store held
\* before, exactly one row exists and it is the row with id 1.
C5_OneRowFromAnyStore ==
    phase = "listening" => DOMAIN rows = {CounterId}

\* C5 (amended): after a successful startup on a store that was never used
\* or held exactly the row with id 1, exactly one row exists and it is the
\* row with id 1; whatever the store held, no handler inserts or deletes a
\* row.
C5_OneRowFromOwnStore ==
    /\ []((OwnStore(store0) /\ phase = "listening")
            => DOMAIN rows = {CounterId})
    /\ [][HandlerStep => DOMAIN rows' = DOMAIN rows]_vars

\* C5 witness: the second run on a store the program created, after an
\* increment was answered.
C5_Witness ==
    /\ FreshStore(store0) /\ runs = 1 /\ phase = "listening"
    /\ DOMAIN rows = {CounterId}
    /\ \E c \in Conns : IncDone(c) /\ resp[c].status = 200

\* The step is the UPDATE of an increment request.
UpdateStep == \E c \in Conns : pc[c] = "update" /\ pc'[c] = "select"

\* C6: no step lowers the stored value: a step leaves the counter row in
\* place with its value unchanged or raised by 1, only the UPDATE of an
\* increment request changes the value, and the only other step that
\* touches the row is the startup INSERT that creates it.
C6_ValueNeverDecreases ==
    [][/\ (CounterId \in DOMAIN rows) =>
             /\ CounterId \in DOMAIN rows'
             /\ \/ rows'[CounterId] = rows[CounterId]
                \/ rows'[CounterId] = rows[CounterId] + 1 /\ UpdateStep
       /\ (CounterId \notin DOMAIN rows /\ CounterId \in DOMAIN rows') =>
             (phase = "insert" /\ rows'[CounterId] = InitialValue)
      ]_vars

\* C6 witness: increments were applied before and after a restart.
C6_Witness ==
    /\ runs = 1 /\ phase = "listening"
    /\ CounterId \in DOMAIN store0.rows
    /\ valueAtStop # NoValue /\ valueAtStop > store0.rows[CounterId]
    /\ StoredValue > valueAtStop

\* C7: a restart preserves the stored value V: the startup of the next run
\* inserts no row and leaves the value at V, the server begins to listen at
\* V, and a GET answered before any increment is applied returns V.
C7_RestartPreservesValue ==
    (runs > 0 /\ valueAtStop # NoValue)
        => /\ phase # "insert"
           /\ (phase # "listening") => StoredValue = valueAtStop
           /\ (phase = "listening") => vStart = valueAtStop
           /\ \A c \in Conns :
                (GetDone(c) /\ stmtFailed[c] = "none"
                   /\ StoredValue = valueAtStop)
                    => resp[c] = ValueResponse(valueAtStop)

\* C7 witness: the value was raised, the process restarted, and a GET of the
\* new run returned the raised value.
C7_Witness ==
    /\ runs = 1 /\ phase = "listening"
    /\ CounterId \in DOMAIN store0.rows
    /\ valueAtStop = store0.rows[CounterId] + 2
    /\ \E c \in Conns : GetDone(c) /\ resp[c] = ValueResponse(valueAtStop)

\* C8: the server listens only after every step of initializeDatabase has
\* succeeded and db is assigned; a run one of whose startup steps failed has
\* exited, with db unassigned and without having received a request, and
\* no request is ever handled while db is unassigned.
C8_ListenOnlyAfterInit ==
    /\ (phase = "listening")
          => (dbAssigned /\ ~initFailed /\ tableExists /\ DOMAIN rows # {})
    /\ initFailed
          => /\ phase = "exited"
             /\ ~dbAssigned
             /\ \A c \in Conns : pc[c] = "idle"
    /\ (\E c \in Conns : pc[c] # "idle") => dbAssigned

\* C8 witness: the INSERT of the first row failed and the process exited.
C8_Witness ==
    /\ initFailed /\ phase = "exited"
    /\ tableExists /\ DOMAIN rows = {}
    /\ \A c \in Conns : pc[c] = "idle"

\* C9 (as claimed): a request one of whose storage statements failed is
\* answered 500 with the fixed message of its route, for the increment
\* whichever of its two statements failed.
C9_FixedErrorMessages ==
    \A c \in Conns :
        (pc[c] = "done" /\ stmtFailed[c] # "none")
        => /\ resp[c].status = 500
           /\ (route[c] = "get")
                 => resp[c].error = "Failed to retrieve counter value."
           /\ (route[c] = "inc")
                 => resp[c].error = "Failed to increment counter value."

\* The request that the step receives, and the connection it arrives on.
ReceiveStep == nIssued' = nIssued + 1

\* The request matches none of the three documented routes.
NotDocumented(q) ==
    /\ ~(q.method = "GET" /\ q.path = "/api/counter")
    /\ ~(q.method = "POST" /\ q.path = "/api/counter/increment")
    /\ ~(q.method = "GET" /\ q.path = "/")

\* The request matches no route as the router matches them: a GET route
\* also answers HEAD.
Unrouted(q) ==
    /\ ~(q.method \in {"GET", "HEAD"} /\ q.path = "/api/counter")
    /\ ~(q.method = "POST" /\ q.path = "/api/counter/increment")
    /\ ~(q.method \in {"GET", "HEAD"} /\ q.path = "/")

\* The step answers the request it receives with 404 and leaves the store
\* as it is.
AnsweredNotFound ==
    /\ pc'[FreeConn] = "done"
    /\ resp'[FreeConn].status = 404
    /\ resp'[FreeConn].text = "404: Not Found"
    /\ rows' = rows

LastIsIncrement ==
    lastReq.method = "POST" /\ lastReq.path = "/api/counter/increment"

\* What an increment request is answered, given the value its UPDATE found
\* and the statement that failed: nothing of the request enters it.
IncrementOutcome(c) ==
    IF stmtFailed[c] = "UPDATE" THEN UpdateFailedAnswer
    ELSE IF stmtFailed[c] = "SELECT"
         THEN ErrorResponse("Failed to retrieve new counter value.")
    ELSE IF pre[c] = NoValue
         THEN ErrorResponse("Counter row disappeared after increment.")
    ELSE ValueResponse(pre[c] + 1)

\* The request on connection c went to the increment handler, and once it
\* is answered its response and the stored value are those the stored
\* value before it and the storage results determine.
HandledAsIncrement(c) ==
    /\ route[c] = "inc"
    /\ (pc[c] = "done") =>
          /\ resp[c] = IncrementOutcome(c)
          /\ (pre[c] # NoValue) => StoredValue = pre[c] + 1

C13_MissingRow ==
    (phase = "listening" /\ vStart = NoValue)
        => /\ CounterId \notin DOMAIN rows
           /\ \A c \in Conns :
                /\ (GetDone(c) /\ stmtFailed[c] = "none")
                      => resp[c] = ValueResponse(0)
                /\ IncDone(c)
                      => (resp[c].status = 500 /\ resp[c].value = NoValue)

\* C13 witness: on a store that holds only another row, a GET was answered
\* 0 and an increment whose statements succeeded was answered 500.
C13_Witness ==
    /\ phase = "listening" /\ vStart = NoValue /\ ~failed
    /\ DOMAIN rows = {OtherId}
    /\ \E c, d \in Conns :
         /\ GetDone(c) /\ resp[c] = ValueResponse(0)
         /\ IncDone(d)
         /\ resp[d] = ErrorResponse("Counter row disappeared after increment.")

\* C14 (as claimed): an increment request answered 500 has not changed the
\* stored value (its UPDATE was not applied to the counter row).
C14_ErrorMeansNotApplied ==
    \A c \in Conns :
        (IncDone(c) /\ resp[c].status = 500) => pre[c] = NoValue

\* The calls of incrementCounter whose request is on its way or unanswered.
IncrementsInFlight ==
    {k \in Calls : call[k].fn = "increment" /\ call[k].pc # "idle"}

\* C12 (as claimed): a click disables the button before the POST is sent,
\* the button is eventually re-enabled whatever becomes of the request, and
\* the page has at most one increment request in flight, the button being
\* disabled as long as it is.
C12_OneIncrementPerPage ==
    /\ [][(nClicks' = nClicks + 1) => disabled']_vars
    /\ [](Cardinality(IncrementsInFlight) <= 1)
    /\ []((IncrementsInFlight # {}) => disabled)
    /\ (disabled ~> ~disabled)

\* C12, its safety part alone: at most one increment request of the page
\* is in flight, and the button is disabled as long as one is.
C12_ButtonGuardsIncrement ==
    /\ Cardinality(IncrementsInFlight) <= 1
    /\ (IncrementsInFlight # {}) => disabled

\* C12, its liveness part alone.
C12_ButtonReenabled == disabled ~> ~disabled

====
